---- MODULE Spec2Model ----
(***************************************************************************)
(* Model of the `lazy` crate (src/src/lib.rs): a single Lazy<T, E> cell,   *)
(* its State machine, and the calls a single thread of control can make   *)
(* on it, including the calls the running initializer (LazyInit::init)    *)
(* makes on the cell it is initializing.                                  *)
(***************************************************************************)
EXTENDS Integers, Sequences, FiniteSets, TLC

\* Values of T are 1..MaxVal, values of E are 1..MaxErr.
MaxVal == 2
MaxErr == 2
\* The counter of initializer invocations saturates at MaxInit.
MaxInit == 3
\* At most MaxRefs references handed out by the cell are held at a time.
MaxRefs == 2

T == 1..MaxVal
E == 1..MaxErr

-----------------------------------------------------------------------------
\* enum State<T>
Unevaluated == [tag |-> "Unevaluated", val |-> 0]
InProgress == [tag |-> "InProgress", val |-> 0]
Evaluated(v) == [tag |-> "Evaluated", val |-> v]

\* Results a call can end with: Result<_, E>, Option<_>, () and a panic.
Ok(v) == [kind |-> "Ok", val |-> v, msg |-> ""]
Err(e) == [kind |-> "Err", val |-> e, msg |-> ""]
Some(v) == [kind |-> "Some", val |-> v, msg |-> ""]
None == [kind |-> "None", val |-> 0, msg |-> ""]
Unit == [kind |-> "Unit", val |-> 0, msg |-> ""]
Panic(m) == [kind |-> "Panic", val |-> 0, msg |-> m]
NoRes == [kind |-> "NoRes", val |-> 0, msg |-> ""]

ReentrantMsg == "Lazy evaluation called from itself."
UnreachableMsg == "internal error: entered unreachable code"
\* A panic raised by the initializer's own code.
InitPanicMsg == "initializer panicked"

Gets == {"get", "get_mut"}
Peeks == {"get_maybe", "get_maybe_mut"}

-----------------------------------------------------------------------------
\* Lazy::new
new_eager == Evaluated(1)
new == Unevaluated

\* Default for Lazy
default == new

\* Lazy::set: the state after the call and how the call ends.
set_unchecked(st, value) == [state |-> Evaluated(value), out |-> Unit]
set_firstWins(st, value) ==
    IF st.tag = "InProgress" THEN [state |-> st, out |-> Panic(ReentrantMsg)]
    ELSE IF st.tag = "Evaluated" THEN [state |-> st, out |-> Unit]
    ELSE [state |-> Evaluated(value), out |-> Unit]
set_onlyOverwrite(st, value) ==
    IF st.tag = "InProgress" THEN [state |-> st, out |-> Panic(ReentrantMsg)]
    ELSE IF st.tag = "Unevaluated" THEN [state |-> st, out |-> Unit]
    ELSE [state |-> Evaluated(value), out |-> Unit]
set(st, value) ==
    IF st.tag = "InProgress" THEN [state |-> st, out |-> Panic(ReentrantMsg)]
    ELSE [state |-> Evaluated(value), out |-> Unit]

\* Lazy::get_maybe
get_maybe_any(st) == IF st.tag = "Unevaluated" THEN None ELSE Some(st.val)
get_maybe(st) == IF st.tag = "Evaluated" THEN Some(st.val) ELSE None

\* Lazy::get_maybe_mut
get_maybe_mut(st) == IF st.tag = "Evaluated" THEN Some(st.val) ELSE None

\* The conversion `?` applies to the error it propagates: From<E> for E.
From_lossy(e) == 1
From(e) == e

\* Lazy::evaluate up to the call of the initializer: the first match (early
\* return, reentrancy panic), then ptr::replace and the match on the state it
\* took.  next = "ret": evaluate returns out; "panic": it panics with out;
\* "init": it has stored InProgress and calls LazyInit::init.
evaluate_enter_noCache(st) ==
    IF st.tag = "InProgress"
    THEN [state |-> st, next |-> "panic", out |-> Panic(ReentrantMsg)]
    ELSE [state |-> InProgress, next |-> "init", out |-> NoRes]
evaluate_enter_noGuard(st) ==
    IF st.tag = "Evaluated"
    THEN [state |-> st, next |-> "ret", out |-> Unit]
    ELSE IF st.tag = "Unevaluated"
         THEN [state |-> InProgress, next |-> "init", out |-> NoRes]
         ELSE [state |-> InProgress, next |-> "panic", out |-> Panic(UnreachableMsg)]
evaluate_enter_stuckErr(st) ==
    IF st.tag = "Evaluated"
    THEN [state |-> st, next |-> "ret", out |-> Unit]
    ELSE IF st.tag = "InProgress"
         THEN [state |-> st, next |-> "ret", out |-> Err(1)]
         ELSE [state |-> InProgress, next |-> "init", out |-> NoRes]
evaluate_enter(st) ==
    IF st.tag = "Evaluated"
    THEN [state |-> st, next |-> "ret", out |-> Unit]
    ELSE IF st.tag = "InProgress"
         THEN [state |-> st, next |-> "panic", out |-> Panic(ReentrantMsg)]
         ELSE IF st.tag = "Unevaluated"
              THEN [state |-> InProgress, next |-> "init", out |-> NoRes]
              ELSE [state |-> InProgress, next |-> "panic", out |-> Panic(UnreachableMsg)]

\* Lazy::evaluate once the initializer has returned r: `init()?` and the
\* assignment of State::Evaluated.
evaluate_finish_rollback(st, r) ==
    IF r.kind = "Ok"
    THEN [state |-> Evaluated(r.val), out |-> Unit]
    ELSE [state |-> Unevaluated, out |-> Err(From(r.val))]
evaluate_finish(st, r) ==
    IF r.kind = "Ok"
    THEN [state |-> Evaluated(r.val), out |-> Unit]
    ELSE [state |-> st, out |-> Err(From(r.val))]

\* Lazy::get after evaluate has returned ev: `self.evaluate()?`, then the
\* reference to the value held, or unreachable!().
get_finish(st, ev) ==
    IF ev.kind = "Err" THEN Err(From(ev.val))
    ELSE IF st.tag = "Evaluated" THEN Ok(st.val)
    ELSE Panic(UnreachableMsg)

\* Lazy::get_mut after evaluate has returned ev.
get_mut_finish_noQuestionMark(st, ev) ==
    IF st.tag = "Evaluated" THEN Ok(st.val) ELSE Panic(UnreachableMsg)
get_mut_finish(st, ev) ==
    IF ev.kind = "Err" THEN Err(From(ev.val))
    ELSE IF st.tag = "Evaluated" THEN Ok(st.val)
    ELSE Panic(UnreachableMsg)

\* The receiver each method takes: `&mut self` for get_mut, `&self` for set,
\* get_maybe, get_maybe_mut and get.
receiver(op) == IF op = "get_mut" THEN "&mut self" ELSE "&self"

\* The reference a method hands out when it returns a value: `&T`, or `&mut T`
\* borrowed from a shared or from an exclusive borrow of the cell.
handsOut(op) ==
    IF op \in {"get", "get_maybe"} THEN "shared"
    ELSE IF op \in {"get_mut", "get_maybe_mut"}
         THEN (IF receiver(op) = "&mut self" THEN "mutExcl" ELSE "mutShared")
         ELSE "none"

finish(op, st, ev) == IF op = "get" THEN get_finish(st, ev) ELSE get_mut_finish(st, ev)

-----------------------------------------------------------------------------
VARIABLES
    inner,      \* Lazy::inner, the State of the cell
    stack,      \* the get()/get_mut() calls whose initializer is running
    unwinding,  \* the message of the panic in flight, "" when there is none
    alive,      \* FALSE once an uncaught panic has ended the thread
    last,       \* the call that completed last
    initCount,  \* how many times LazyInit::init has been entered
    produced,   \* what the initializer returned last
    initFail,   \* "none", or how an initializer failed: "err", "panic"
    lastSet,    \* the set() that returned last: its value and the state it found
    demanded,   \* a get(), get_mut() or set() has been called
    leftBy,     \* the call that took the cell out of Unevaluated
    refs,       \* how many references to the value are held, by kind
    wroteSince  \* the value was written through a `&mut T` since the last set()

vars == <<inner, stack, unwinding, alive, last, initCount, produced, initFail,
          lastSet, demanded, leftBy, refs, wroteSince>>

NoCall == [op |-> "none", arg |-> 0, depth |-> 0, pre |-> Unevaluated,
           post |-> Unevaluated, out |-> NoRes, inits |-> 0, initRes |-> NoRes]
NoSet == [v |-> 0, old |-> Unevaluated]

Call(op, arg, depth, pre, post, out, inits, initRes) ==
    [op |-> op, arg |-> arg, depth |-> depth, pre |-> pre, post |-> post,
     out |-> out, inits |-> inits, initRes |-> initRes]

Bump(n) == IF n < MaxInit THEN n + 1 ELSE n

Running == alive /\ unwinding = ""

NoRefs == [shared |-> 0, mutShared |-> 0, mutExcl |-> 0]
Held == refs.shared + refs.mutShared + refs.mutExcl
HeldMut == refs.mutShared + refs.mutExcl

\* The borrow the receiver of op takes is allowed while the references held
\* are alive: `&mut self` needs no reference to be held, `&self` needs no
\* reference borrowed from an exclusive borrow to be held.
BorrowOk(op) ==
    IF receiver(op) = "&mut self" THEN Held = 0 ELSE refs.mutExcl = 0

\* The references held once op has ended with out and the caller keeps the
\* reference it was handed (keep) or drops it at once.
Handed(op, out, keep) ==
    IF out.kind \in {"Ok", "Some"} /\ keep /\ Held < MaxRefs /\ handsOut(op) # "none"
    THEN [refs EXCEPT ![handsOut(op)] = @ + 1]
    ELSE refs

Left(pre, post, op) ==
    IF leftBy = "none" /\ pre.tag = "Unevaluated" /\ post.tag # "Unevaluated"
    THEN op ELSE leftBy

Init ==
    /\ inner \in {new, default}
    /\ stack = <<>>
    /\ unwinding = ""
    /\ alive = TRUE
    /\ last = NoCall
    /\ initCount = 0
    /\ produced = NoRes
    /\ initFail = "none"
    /\ lastSet = NoSet
    /\ demanded = FALSE
    /\ leftBy = "none"
    /\ refs = NoRefs
    /\ wroteSince = FALSE

\* A call of set(value), by the owner or by the running initializer.
Set(value) ==
    /\ Running
    /\ BorrowOk("set")
    /\ LET s == set(inner, value) IN
        /\ inner' = s.state
        /\ unwinding' = s.out.msg
        /\ last' = Call("set", value, Len(stack), inner, s.state, s.out, 0, NoRes)
        /\ lastSet' = IF s.out.kind = "Unit"
                      THEN [v |-> value, old |-> inner] ELSE lastSet
        /\ leftBy' = Left(inner, s.state, "set")
        /\ wroteSince' = IF s.out.kind = "Unit" THEN FALSE ELSE wroteSince
    /\ demanded' = TRUE
    /\ UNCHANGED <<stack, alive, initCount, produced, initFail, refs>>

\* A call of get_maybe().
GetMaybe ==
    /\ Running
    /\ BorrowOk("get_maybe")
    /\ last' = Call("get_maybe", 0, Len(stack), inner, inner, get_maybe(inner), 0, NoRes)
    /\ \E keep \in BOOLEAN : refs' = Handed("get_maybe", get_maybe(inner), keep)
    /\ UNCHANGED <<inner, stack, unwinding, alive, initCount, produced, initFail,
                   lastSet, demanded, leftBy, wroteSince>>

\* A call of get_maybe_mut().
GetMaybeMut ==
    /\ Running
    /\ BorrowOk("get_maybe_mut")
    /\ last' = Call("get_maybe_mut", 0, Len(stack), inner, inner, get_maybe_mut(inner),
                    0, NoRes)
    /\ \E keep \in BOOLEAN : refs' = Handed("get_maybe_mut", get_maybe_mut(inner), keep)
    /\ UNCHANGED <<inner, stack, unwinding, alive, initCount, produced, initFail,
                   lastSet, demanded, leftBy, wroteSince>>

\* A call of get() or get_mut(): it returns, panics, or enters the initializer.
Get(op) ==
    /\ Running
    /\ BorrowOk(op)
    /\ demanded' = TRUE
    /\ LET e == evaluate_enter(inner) IN
        /\ inner' = e.state
        /\ leftBy' = Left(inner, e.state, "get")
        /\ IF e.next = "init"
           THEN /\ stack' = Append(stack, [op |-> op, pre |-> inner, inits0 |-> initCount])
                /\ initCount' = Bump(initCount)
                /\ UNCHANGED <<unwinding, last, refs>>
           ELSE LET out == IF e.next = "ret" THEN finish(op, e.state, e.out) ELSE e.out IN
                /\ last' = Call(op, 0, Len(stack), inner, e.state, out, 0, NoRes)
                /\ unwinding' = out.msg
                /\ \E keep \in BOOLEAN : refs' = Handed(op, out, keep)
                /\ UNCHANGED <<stack, initCount>>
    /\ UNCHANGED <<alive, produced, initFail, lastSet, wroteSince>>

Top == stack[Len(stack)]
Pop == SubSeq(stack, 1, Len(stack) - 1)

\* The running initializer returns r; evaluate and the get() that called it
\* complete.
InitReturn(r) ==
    /\ Running
    /\ stack # <<>>
    /\ LET f == evaluate_finish(inner, r)
           out == finish(Top.op, f.state, f.out) IN
        /\ inner' = f.state
        /\ last' = Call(Top.op, 0, Len(stack) - 1, Top.pre, f.state, out,
                        initCount - Top.inits0, r)
        /\ unwinding' = out.msg
        /\ leftBy' = Left(inner, f.state, "get")
        /\ \E keep \in BOOLEAN : refs' = Handed(Top.op, out, keep)
    /\ stack' = Pop
    /\ produced' = r
    /\ initFail' = IF r.kind = "Err" THEN "err" ELSE initFail
    /\ UNCHANGED <<alive, initCount, lastSet, demanded, wroteSince>>

\* The running initializer panics in its own code: the panic unwinds through
\* evaluate and the get() that called it, which leave the state as it is.
InitPanic ==
    /\ Running
    /\ stack # <<>>
    /\ last' = Call(Top.op, 0, Len(stack) - 1, Top.pre, inner, Panic(InitPanicMsg),
                    initCount - Top.inits0, Panic(InitPanicMsg))
    /\ unwinding' = InitPanicMsg
    /\ stack' = Pop
    /\ produced' = Panic(InitPanicMsg)
    /\ initFail' = "panic"
    /\ UNCHANGED <<inner, alive, initCount, lastSet, demanded, leftBy, refs, wroteSince>>

\* The panic of a call the initializer made is not caught by the initializer:
\* it unwinds through the initializer, evaluate and the get() that called it.
Unwind ==
    /\ alive
    /\ unwinding # ""
    /\ stack # <<>>
    /\ last' = Call(Top.op, 0, Len(stack) - 1, Top.pre, inner, Panic(unwinding),
                    initCount - Top.inits0, Panic(unwinding))
    /\ stack' = Pop
    /\ produced' = Panic(unwinding)
    /\ initFail' = "panic"
    /\ UNCHANGED <<inner, unwinding, alive, initCount, lastSet, demanded, leftBy,
                   refs, wroteSince>>

\* The panic in flight is caught (catch_unwind) by the code that made the call.
Catch ==
    /\ alive
    /\ unwinding # ""
    /\ unwinding' = ""
    /\ UNCHANGED <<inner, stack, alive, last, initCount, produced, initFail,
                   lastSet, demanded, leftBy, refs, wroteSince>>

\* The panic in flight reaches the top of the thread uncaught.
Abort ==
    /\ alive
    /\ unwinding # ""
    /\ stack = <<>>
    /\ alive' = FALSE
    /\ UNCHANGED <<inner, stack, unwinding, last, initCount, produced, initFail,
                   lastSet, demanded, leftBy, refs, wroteSince>>

\* The holder of a reference the cell handed out lets it go.
DropRef(kind) ==
    /\ Running
    /\ refs[kind] > 0
    /\ refs' = [refs EXCEPT ![kind] = @ - 1]
    /\ UNCHANGED <<inner, stack, unwinding, alive, last, initCount, produced, initFail,
                   lastSet, demanded, leftBy, wroteSince>>

\* The holder of a `&mut T` handed out by get_mut() or get_maybe_mut() assigns
\* value through it: the value held by the cell is the one written.
WriteMut(value) ==
    /\ Running
    /\ HeldMut > 0
    /\ inner.tag = "Evaluated"
    /\ value # inner.val
    /\ inner' = Evaluated(value)
    /\ wroteSince' = TRUE
    /\ UNCHANGED <<stack, unwinding, alive, last, initCount, produced, initFail,
                   lastSet, demanded, leftBy, refs>>

Next ==
    \/ \E v \in T : Set(v)
    \/ GetMaybe
    \/ GetMaybeMut
    \/ \E op \in Gets : Get(op)
    \/ \E r \in {Ok(v) : v \in T} \cup {Err(e) : e \in E} : InitReturn(r)
    \/ InitPanic
    \/ Unwind
    \/ Catch
    \/ Abort
    \/ \E kind \in {"shared", "mutShared", "mutExcl"} : DropRef(kind)
    \/ \E v \in T : WriteMut(v)

Spec == Init /\ [][Next]_vars

\* A whole call of get() on a cell in state pre whose initializer, if the call
\* runs it, ends with initRes: the state it leaves, how it ends, and how many
\* times it enters the initializer.
get(pre, initRes) ==
    LET e == evaluate_enter(pre) IN
    IF e.next = "init"
    THEN IF initRes.kind = "Panic"
         THEN [post |-> e.state, out |-> initRes, inits |-> 1]
         ELSE LET f == evaluate_finish(e.state, initRes) IN
              [post |-> f.state, out |-> get_finish(f.state, f.out), inits |-> 1]
    ELSE [post |-> e.state,
          out |-> IF e.next = "ret" THEN get_finish(e.state, e.out) ELSE e.out,
          inits |-> 0]

\* A step that is a call of a method of the cell.
CallStep ==
    \/ \E v \in T : Set(v)
    \/ GetMaybe
    \/ GetMaybeMut
    \/ \E op \in Gets : Get(op)

-----------------------------------------------------------------------------
\* C1 (Idempotence): while every initializer run has succeeded, no set() has
\* stored a value and the owner has not assigned through a `&mut T`, every
\* get()/get_mut() call made in sequence by the owner of the cell returns Ok
\* with the value the initializer produced, and the initializer has been
\* entered exactly once, however many calls were made.
C1_Idempotence ==
    (last.op \in Gets /\ last.depth = 0 /\ initFail = "none" /\ lastSet = NoSet
        /\ ~wroteSince)
        => /\ produced.kind = "Ok"
           /\ last.out = Ok(produced.val)
           /\ initCount = 1

\* A second or later call: the cell was already Evaluated by the initializer.
C1_Witness ==
    /\ last.op \in Gets /\ last.depth = 0
    /\ initFail = "none" /\ lastSet = NoSet /\ ~wroteSince
    /\ last.pre.tag = "Evaluated"
    /\ last.out = Ok(produced.val)
    /\ initCount = 1

\* C2 (Reentrancy detection): while the initializer runs the cell is
\* InProgress, and a get()/get_mut() the initializer makes on the cell panics
\* with "Lazy evaluation called from itself.": it returns neither a value nor
\* an error, enters no initializer and leaves the state as it is, and
\* evaluations never nest.
C2_Reentrancy ==
    /\ stack # <<>> => inner = InProgress
    /\ Len(stack) <= 1
    /\ (last.op \in Gets /\ last.depth > 0)
        => /\ last.pre = InProgress
           /\ last.out = Panic(ReentrantMsg)
           /\ last.inits = 0
           /\ last.post = InProgress

C2_Witness ==
    /\ last.op \in Gets /\ last.depth = 1
    /\ last.out = Panic(ReentrantMsg)
    /\ stack # <<>>

\* C3 (Error propagation): a get()/get_mut() on an Unevaluated cell whose
\* initializer returns Err(e) returns Err(e), with that same e, and has entered
\* the initializer exactly once.
C3_ErrorPropagation ==
    (last.op \in Gets /\ last.pre.tag = "Unevaluated" /\ last.initRes.kind = "Err")
        => /\ last.out = Err(last.initRes.val)
           /\ last.inits = 1

C3_Witness ==
    /\ last.op \in Gets /\ last.pre.tag = "Unevaluated"
    /\ last.initRes = Err(MaxErr)
    /\ last.out = Err(MaxErr)

\* C4 (Stuck on failure): a get()/get_mut() whose initializer returned Err
\* leaves the cell InProgress, and a get()/get_mut() the owner makes on the
\* cell after that failure panics with the reentrancy message without entering
\* the initializer and without returning the error again.
C4_StuckOnFailure ==
    /\ (last.op \in Gets /\ last.initRes.kind = "Err") => last.post = InProgress
    /\ (last.op \in Gets /\ last.depth = 0 /\ initFail = "err" /\ last.initRes = NoRes)
        => /\ last.pre = InProgress
           /\ last.out = Panic(ReentrantMsg)
           /\ last.inits = 0
           /\ last.post = InProgress

C4_Witness ==
    /\ last.op \in Gets /\ last.depth = 0
    /\ initFail = "err" /\ last.initRes = NoRes
    /\ last.out = Panic(ReentrantMsg)
    /\ initCount = 1

\* C5 (Lazy until demanded): new() and default() give an Unevaluated cell, and
\* until the first get()/get_mut()/set() the cell stays Unevaluated, the
\* initializer has not been entered, and get_maybe()/get_maybe_mut() return
\* None.
C5_LazyUntilDemanded ==
    /\ new = Unevaluated
    /\ default = Unevaluated
    /\ ~demanded
        => /\ inner = Unevaluated
           /\ initCount = 0
           /\ last.op \in Peeks => last.out = None

C5_Witness ==
    /\ ~demanded
    /\ last.op \in Peeks
    /\ last.out = None

\* C6 (Direct-set overwrite): set(v) on an Evaluated cell returns normally and
\* leaves Evaluated(v); as long as that set() is the last one and the owner
\* has not assigned through a `&mut T` since, every get(), get_mut(),
\* get_maybe() and get_maybe_mut() observes v and enters no initializer.
C6_DirectSetOverwrite ==
    /\ (last.op = "set" /\ last.pre.tag = "Evaluated")
        => /\ last.out = Unit
           /\ last.post = Evaluated(last.arg)
           /\ ~wroteSince => inner = Evaluated(last.arg)
    /\ (lastSet # NoSet /\ lastSet.old.tag = "Evaluated" /\ ~wroteSince)
        => /\ initCount <= 1
           /\ last.op \in Gets => (last.out = Ok(lastSet.v) /\ last.inits = 0)
           /\ last.op \in Peeks => last.out = Some(lastSet.v)

\* A get() after a set(v) that replaced a different value w.
C6_Witness ==
    /\ lastSet # NoSet /\ lastSet.old.tag = "Evaluated" /\ ~wroteSince
    /\ lastSet.old.val # lastSet.v
    /\ last.op \in Gets
    /\ last.out = Ok(lastSet.v)

\* C7 (Direct-set vs in-progress): set(v) on an InProgress cell, from inside
\* the running initializer or after a failed initialization, panics with
\* "Lazy evaluation called from itself." and leaves the cell InProgress.
C7_SetInProgress ==
    (last.op = "set" /\ last.pre = InProgress)
        => /\ last.out = Panic(ReentrantMsg)
           /\ last.post = InProgress
           /\ (unwinding # "" /\ last.depth = Len(stack)) => inner = InProgress

\* set() called after a failed initialization left the cell stuck.
C7_Witness ==
    /\ last.op = "set" /\ last.pre = InProgress
    /\ last.depth = 0 /\ initFail = "err"
    /\ last.out = Panic(ReentrantMsg)

Rank(st) == IF st.tag = "Unevaluated" THEN 0 ELSE IF st.tag = "InProgress" THEN 1 ELSE 2

\* C8 (Forward-only transitions): every change of the state is one of
\* Unevaluated -> InProgress, InProgress -> Evaluated, Unevaluated ->
\* Evaluated, Evaluated -> Evaluated: the state never moves back.
C8_ForwardOnly == [][Rank(inner') >= Rank(inner)]_vars

\* A call on a cell that went Unevaluated -> InProgress -> Evaluated.
C8_Witness ==
    /\ leftBy = "get"
    /\ inner.tag = "Evaluated"
    /\ last.op = "set" /\ last.pre.tag = "Evaluated"

\* C9 (Peek is a pure observer): get_maybe() and get_maybe_mut() return
\* Some(value) exactly when the state is Evaluated(value) and None otherwise,
\* also from inside the running initializer; they do not panic, do not enter
\* the initializer and leave the state of the cell as it is.
C9_PeekPure ==
    /\ [](last.op \in Peeks
            => last.out = IF last.pre.tag = "Evaluated" THEN Some(last.pre.val) ELSE None)
    /\ [][(last'.op \in Peeks /\ last' # last)
            => /\ inner' = inner
               /\ initCount' = initCount
               /\ stack' = stack
               /\ unwinding' = ""]_vars

\* A peek made by the running initializer.
C9_Witness ==
    /\ last.op \in Peeks
    /\ last.depth = 1
    /\ last.pre = InProgress
    /\ last.out = None

\* C10 (Direct-set bypasses the initializer): set(v) on an Unevaluated cell
\* returns normally with the cell Evaluated(v); the initializer is never
\* entered for a cell that left Unevaluated by set(), and as long as that set()
\* is the last one and the owner has not assigned through a `&mut T` since,
\* every get()/get_mut() returns Ok(v).
C10_SetBypassesInit ==
    /\ (last.op = "set" /\ last.pre = Unevaluated)
        => /\ last.out = Unit
           /\ last.post = Evaluated(last.arg)
    /\ leftBy = "set"
        => /\ initCount = 0
           /\ stack = <<>>
           /\ inner.tag = "Evaluated"
    /\ (lastSet # NoSet /\ lastSet.old = Unevaluated /\ ~wroteSince /\ last.op \in Gets)
        => /\ last.out = Ok(lastSet.v)
           /\ last.inits = 0

C10_Witness ==
    /\ leftBy = "set"
    /\ lastSet # NoSet /\ lastSet.old = Unevaluated /\ ~wroteSince
    /\ last.op \in Gets
    /\ last.out = Ok(lastSet.v)

\* C11 (No silent failure): every get()/get_mut() call ends with Ok and the
\* cell Evaluated with the value returned, or with Err(e) where e is the error
\* the initializer returned in that call, or with a panic; it never returns Ok
\* with the cell not Evaluated, nor Err when no initializer failed in the call.
C11_NoSilentFailure ==
    last.op \in Gets
        => /\ last.out.kind \in {"Ok", "Err", "Panic"}
           /\ last.out.kind = "Ok" => last.post = Evaluated(last.out.val)
           /\ last.out.kind = "Err"
                => (last.initRes = Err(last.out.val) /\ last.inits = 1)
           /\ last.out.kind = "Panic" => last.out.msg # ""

\* A get_mut() that ran the initializer and returned the value it produced.
C11_Witness ==
    /\ last.op = "get_mut"
    /\ last.inits = 1
    /\ last.initRes.kind = "Ok"
    /\ last.out = Ok(last.initRes.val)
    /\ last.post = Evaluated(last.out.val)

\* C12 (Exclusive access for mutable borrows): a `&mut T` handed out by the
\* cell is never alive together with another reference, `&T` or `&mut T`, to
\* the value of the same cell.
C12_ExclusiveMut == HeldMut > 0 => Held = 1

\* C13 (At most one initializer run): over every sequence of calls the
\* initializer is entered at most once; it is entered only by a get()/get_mut()
\* that takes the cell from Unevaluated to InProgress, so never after it
\* returned, failed, or a set() stored a value.
C13_InitAtMostOnce ==
    /\ [](initCount <= 1 /\ (initCount = 1 => leftBy = "get"))
    /\ [][initCount' # initCount
            => /\ inner = Unevaluated
               /\ inner' = InProgress
               /\ initCount = 0
               /\ \E op \in Gets : Get(op)]_vars

\* The initializer ran once and succeeded, a set() stored a value, and a later
\* get() was made.
C13_Witness ==
    /\ initCount = 1
    /\ leftBy = "get"
    /\ lastSet # NoSet
    /\ last.op \in Gets
    /\ last.pre.tag = "Evaluated"
    /\ last.inits = 0

\* C14 (Mutable variant equivalence): from every state and for every outcome
\* of the initializer, a get_mut() call leaves the state, ends (Ok with the
\* value, Err with the error, panic with the message) and enters the
\* initializer exactly as a get() call from that state would.
C14_MutEquivalence ==
    last.op = "get_mut"
        => LET g == get(last.pre, last.initRes) IN
           /\ last.post = g.post
           /\ last.out = g.out
           /\ last.inits = g.inits
           /\ g.inits = 0 => last.initRes = NoRes

\* A get_mut() whose initializer failed.
C14_Witness ==
    /\ last.op = "get_mut"
    /\ last.pre = Unevaluated
    /\ last.initRes.kind = "Err"
    /\ last.out = Err(last.initRes.val)

\* C15 (Value stability), as claimed: once the cell is Evaluated, the value it
\* holds changes only in a set() call.
C15_ValueStability ==
    [][(inner.tag = "Evaluated" /\ inner' # inner) => \E v \in T : Set(v)]_vars

\* C15, amended: once the cell is Evaluated, the state changes only in a set()
\* call or in an assignment the holder of a `&mut T` handed out by get_mut() or
\* get_maybe_mut() makes through it; no get(), get_mut(), get_maybe() or
\* get_maybe_mut() call changes it; and set() on an InProgress cell panics and
\* stores nothing.
C15_ValueStabilityAmended ==
    [][/\ (inner.tag = "Evaluated" /\ inner' # inner)
            => ((\E v \in T : Set(v)) \/ (\E v \in T : WriteMut(v)))
       /\ (inner.tag = "Evaluated"
            /\ (GetMaybe \/ GetMaybeMut \/ \E op \in Gets : Get(op)))
            => inner' = inner
       /\ (inner = InProgress /\ \E v \in T : Set(v))
            => (inner' = inner /\ unwinding' = ReentrantMsg)]_vars

\* A get() that observes a value assigned through a `&mut T`.
C15_Witness ==
    /\ wroteSince
    /\ last.op \in Gets
    /\ last.pre.tag = "Evaluated"
    /\ last.out = Ok(last.pre.val)
    /\ inner = last.post

\* C16 (Ordering guarantee), as claimed: no call on the cell begins between
\* the start and the end of a get()'s evaluation.
C16_Ordering == [][stack # <<>> => ~CallStep]_vars

\* C16, amended: between the start and the end of a get()'s evaluation the
\* only calls on the cell are those the running initializer makes; each finds
\* the cell InProgress and leaves it so, enters no initializer, and ends with
\* the reentrancy panic (get, get_mut, set) or None (get_maybe, get_maybe_mut);
\* a call by the owner begins only once the get() has completed.
C16_OrderingAmended ==
    [][(stack # <<>> /\ CallStep)
        => /\ inner = InProgress
           /\ inner' = InProgress
           /\ stack' = stack
           /\ initCount' = initCount
           /\ last'.depth = Len(stack)
           /\ last'.out = IF last'.op \in Peeks THEN None ELSE Panic(ReentrantMsg)]_vars

\* The running initializer called set(), caught the panic and goes on.
C16_Witness ==
    /\ stack # <<>>
    /\ unwinding = ""
    /\ last.op = "set"
    /\ last.depth = 1
    /\ last.out = Panic(ReentrantMsg)

\* C17 (InProgress is transient): the cell is InProgress only while the
\* initializer of a get()/get_mut() call is running.
C17_Transient == inner = InProgress => stack # <<>>

\* C18 (Stuck InProgress is absorbing): once an initializer has returned Err
\* the cell stays InProgress whatever is called: every later get(), get_mut()
\* and set() panics with the reentrancy message and enters no initializer,
\* every later get_maybe()/get_maybe_mut() returns None, and the cell never
\* becomes Evaluated.
C18_StuckAbsorbing ==
    initFail = "err"
        => /\ inner = InProgress
           /\ stack = <<>>
           /\ initCount = 1
           /\ Held = 0
           /\ last.initRes = NoRes
                => /\ last.pre = InProgress
                   /\ last.post = InProgress
                   /\ last.depth = 0
                   /\ last.out = IF last.op \in Peeks THEN None ELSE Panic(ReentrantMsg)

\* A peek after a set() on the stuck cell panicked and the panic was caught.
C18_Witness ==
    /\ initFail = "err"
    /\ last.initRes = NoRes
    /\ last.op = "get_maybe_mut"
    /\ last.out = None
    /\ demanded

\* C19 (unreachable!() is unreachable): no call ends in an unreachable!()
\* panic: the state ptr::replace takes in evaluate() is Unevaluated, and when
\* evaluate() returns Ok(()) to get()/get_mut() the cell is Evaluated, also for
\* the calls the running initializer makes.
C19_Unreachable ==
    /\ unwinding # UnreachableMsg
    /\ last.out.msg # UnreachableMsg
    /\ evaluate_enter(inner).next = "init" => inner = Unevaluated
    /\ evaluate_enter(inner).out.msg # UnreachableMsg
    /\ \A op \in Gets :
        /\ evaluate_enter(inner).next = "ret"
            => finish(op, evaluate_enter(inner).state, evaluate_enter(inner).out).kind = "Ok"
        /\ stack # <<>>
            => \A r \in {Ok(v) : v \in T} \cup {Err(e) : e \in E} :
                 LET f == evaluate_finish(inner, r) IN
                 finish(op, f.state, f.out).msg # UnreachableMsg

\* The running initializer called get(), caught the panic and goes on.
C19_Witness ==
    /\ stack # <<>>
    /\ unwinding = ""
    /\ last.op \in Gets
    /\ last.depth = 1
    /\ last.out.kind = "Panic"

====
